---- MODULE Spec2Model ----
(***************************************************************************)
(* main.py: "free" adversarial training with a persistent perturbation     *)
(* buffer delta, a best-checkpoint rule on the PGD-20 test accuracy and a  *)
(* final evaluation of the best checkpoint under PGD-20, PGD-50 and FGSM.  *)
(*                                                                         *)
(* The script is modelled statement by statement: pc is the position in    *)
(* the script.  Tensors are vectors of Dim integer components; epsilon is  *)
(* an integer number of units, so delta + epsilon * sign(grad) and         *)
(* clamp(delta, -epsilon, epsilon) are computed exactly.  What the         *)
(* autodiff engine and the attack library return (the sign of the input    *)
(* gradient, the test accuracy) is chosen nondeterministically.  The       *)
(* weights are identified by where they came from and by the number of     *)
(* optimizer steps applied to them since.                                  *)
(***************************************************************************)
EXTENDS Integers, Sequences, FiniteSets

\* ---------------------------------------------------------------- bounds
Dim == 2          \* components of one tensor (delta, adv, grad)
MaxM == 2         \* largest --m tried
MaxBatches == 2   \* largest len(trainloader) tried
MaxEps == 2       \* largest --epsilon tried, in units
MaxAcc == 2       \* test accuracies are 0..MaxAcc

\* ------------------------------------------------------ program constants
NumEpochs == 27       \* range(start_epoch, 27)
LrDecay1 == 12        \* epoch < 12
LrDecay2 == 22        \* epoch >= 22
LrInit == 100         \* lr=0.1, in thousandths
LrMid == 10           \* lr = 0.01
LrLow == 1            \* lr = 0.001

NoGrad == [set |-> FALSE]       \* adv.grad before backward()
NoFile == [written |-> FALSE]   \* best<dataset> not written by this run
NoAcc == -1           \* tmp_acc before test() has returned
Unbound == -1         \* lr when no branch of adjust_learning_rate assigns it

Comps == 1..Dim
Signs == {-1, 0, 1}
Accs == 0..MaxAcc
Zeros == [c \in Comps |-> 0]

\* checkpoint['epoch'] of the checkpoints resumed from: the run trains one
\* epoch (26) or none (start_epoch = 27, 28), or the last three epochs
LateCkpts == {NumEpochs - 2, NumEpochs - 1, NumEpochs}
ThreeLeft == NumEpochs - 4

\* The runs: the command line (resume, m, epsilon), the checkpoint resumed
\* from (ckpt_epoch = checkpoint['epoch']) and the data (nbatches =
\* len(trainloader), testAccs = the accuracies test() can return).
\*   - resumed at the end of the schedule: every m, nbatches and epsilon;
\*   - resumed three epochs before its end: one inner step per epoch and
\*     every sequence of accuracies;
\*   - not resumed, the whole schedule: one inner step per epoch and the
\*     same accuracy in every epoch.
Runs ==
    {[resume |-> TRUE, ckpt_epoch |-> r, m |-> mm, nbatches |-> nb,
      epsilon |-> e, testAccs |-> Accs] :
        r \in LateCkpts, mm \in 1..MaxM, nb \in 1..MaxBatches, e \in 0..MaxEps}
    \cup
    {[resume |-> TRUE, ckpt_epoch |-> ThreeLeft, m |-> 1, nbatches |-> 1,
      epsilon |-> MaxEps, testAccs |-> Accs]}
    \cup
    {[resume |-> FALSE, ckpt_epoch |-> 0, m |-> 1, nbatches |-> 1,
      epsilon |-> MaxEps, testAccs |-> {a}] : a \in Accs}

VARIABLES
    pc,           \* position in the script
    args,         \* the run: command line and data
    start_epoch,
    epoch, batch_idx, i,
    delta,        \* the perturbation buffer
    adv,          \* adv - inputs of the current forward pass
    grad,         \* adv.grad: [sign, at], at = the weights it was computed with
    weights,      \* net's parameters: [base, steps]
    mode,         \* net.training: "train" or "eval"
    lr,           \* param_group['lr'], in thousandths
    opt_steps,    \* optimizer.step() calls (the momentum buffers' age)
    max_acc, tmp_acc,
    file,         \* './checkpoint/best<dataset>': NoFile or [net, epoch]
    log,          \* history: <<[epoch, acc, net]>> of the test() calls of train
    trained,      \* history: <<epoch>> of the train(epoch) calls
    adjusted,     \* history: <<epoch>> of the adjust_learning_rate calls
    evals,        \* history: the evaluation functions called after the loop
    inner,        \* history: sub-steps done in the current inner step
    nsteps,       \* history: inner steps completed in the current minibatch
    nbatch,       \* history: minibatches completed in this run
    ndelta,       \* history: delta updates in this run
    last_delta    \* history: delta as the last completed inner step left it

vars == <<pc, args, start_epoch, epoch, batch_idx, i, delta, adv, grad, weights,
          mode, lr, opt_steps, max_acc, tmp_acc, file, log, trained, adjusted,
          evals, inner, nsteps, nbatch, ndelta, last_delta>>

prog == <<args, start_epoch, epoch, batch_idx, i>>
hist == <<log, trained, adjusted, evals, inner, nsteps, nbatch, ndelta, last_delta>>

\* ------------------------------------------------------------- operators
\* mutant of clamp: torch.clamp(delta, max=epsilon), the lower bound forgotten
clampUpperOnly(x, lo, hi) ==
    [c \in DOMAIN x |-> IF x[c] > hi THEN hi ELSE x[c]]

\* torch.clamp(x, lo, hi) = min(max(x, lo), hi), per component
clamp(x, lo, hi) ==
    [c \in DOMAIN x |-> IF (IF x[c] < lo THEN lo ELSE x[c]) > hi
                        THEN hi
                        ELSE (IF x[c] < lo THEN lo ELSE x[c])]

\* mutant of ascent: delta + torch.sign(grad), the step size forgotten
ascentUnitStep(d, eps, s) == [c \in DOMAIN d |-> d[c] + s[c]]

\* delta.detach() + epsilon * torch.sign(grad.detach())
ascent(d, eps, s) == [c \in DOMAIN d |-> d[c] + eps * s[c]]

\* mutant of adjust_learning_rate: elif epoch > 12, epoch 12 assigns nothing
adjustGapAtDecay(e) ==
    IF e < LrDecay1 THEN LrInit
    ELSE IF e > LrDecay1 /\ e < LrDecay2 THEN LrMid
    ELSE IF e >= LrDecay2 THEN LrLow
    ELSE Unbound

\* the lr that adjust_learning_rate(optimizer, epoch) assigns
adjust_learning_rate(e) ==
    IF e < LrDecay1 THEN LrInit
    ELSE IF e >= LrDecay1 /\ e < LrDecay2 THEN LrMid
    ELSE IF e >= LrDecay2 THEN LrLow
    ELSE Unbound

\* mutant of LoopHead: range(from, 27 + 1)
LoopHeadInclusive(from) == IF from <= NumEpochs THEN "adjust" ELSE "load"

\* for epoch in range(from, 27): the position after the loop head
LoopHead(from) == IF from < NumEpochs THEN "adjust" ELSE "load"

\* ------------------------------------------------------------------ Init
Init ==
    /\ pc = "resume"
    /\ args \in Runs
    /\ start_epoch = 0
    /\ epoch = 0 /\ batch_idx = 0 /\ i = 0
    /\ delta = Zeros
    /\ adv = Zeros
    /\ grad = NoGrad
    /\ weights = [base |-> "init", steps |-> 0]
    /\ mode = "train"
    /\ lr = LrInit
    /\ opt_steps = 0
    /\ max_acc = 0
    /\ tmp_acc = NoAcc
    /\ file = NoFile
    /\ log = <<>> /\ trained = <<>> /\ adjusted = <<>> /\ evals = <<>>
    /\ inner = <<>> /\ nsteps = 0 /\ nbatch = 0 /\ ndelta = 0
    /\ last_delta = Zeros

\* --------------------------------------------------------------- actions
\* if args.resume is not None: load_state_dict, start_epoch = epoch + 1;
\* then the head of the epoch loop
Resume ==
    /\ pc = "resume"
    /\ IF ~args.resume
       THEN /\ start_epoch' = 0
            /\ weights' = weights
       ELSE /\ start_epoch' = args.ckpt_epoch + 1
            /\ weights' = [base |-> "ckpt", steps |-> 0]
    /\ epoch' = start_epoch'
    /\ pc' = LoopHead(start_epoch')
    /\ UNCHANGED <<args, batch_idx, i, delta, adv, grad, mode, lr, opt_steps,
                   max_acc, tmp_acc, file, hist>>

\* adjust_learning_rate(optimizer, epoch)
Adjust ==
    /\ pc = "adjust"
    /\ lr' = adjust_learning_rate(epoch)
    /\ adjusted' = Append(adjusted, epoch)
    /\ pc' = "train"
    /\ UNCHANGED <<prog, delta, adv, grad, weights, mode, opt_steps, max_acc,
                   tmp_acc, file, log, trained, evals, inner, nsteps, nbatch,
                   ndelta, last_delta>>

\* mutant of TrainBegin: delta = torch.zeros(...) inside train, a fresh
\* buffer for every epoch
TrainBeginFreshDelta ==
    /\ pc = "train"
    /\ mode' = "train"
    /\ delta' = Zeros
    /\ trained' = Append(trained, epoch)
    /\ batch_idx' = 0 /\ i' = 0
    /\ pc' = "forward"
    /\ UNCHANGED <<args, start_epoch, epoch, adv, grad, weights, lr,
                   opt_steps, max_acc, tmp_acc, file, log, adjusted, evals,
                   inner, nsteps, nbatch, ndelta, last_delta>>

\* train(epoch) up to the first minibatch: net.train(), global delta
TrainBegin ==
    /\ pc = "train"
    /\ mode' = "train"
    /\ trained' = Append(trained, epoch)
    /\ batch_idx' = 0 /\ i' = 0
    /\ pc' = "forward"
    /\ UNCHANGED <<args, start_epoch, epoch, delta, adv, grad, weights, lr,
                   opt_steps, max_acc, tmp_acc, file, log, adjusted, evals,
                   inner, nsteps, nbatch, ndelta, last_delta>>

\* optimizer.zero_grad(); adv = (inputs+delta).detach(); outputs = net(adv)
Forward ==
    /\ pc = "forward"
    /\ adv' = delta
    /\ grad' = NoGrad
    /\ inner' = <<"forward">>
    /\ nsteps' = IF i = 0 THEN 0 ELSE nsteps
    /\ pc' = "loss"
    /\ UNCHANGED <<prog, delta, weights, mode, lr, opt_steps, max_acc, tmp_acc,
                   file, log, trained, adjusted, evals, nbatch, ndelta,
                   last_delta>>

\* loss = F.cross_entropy(outputs, targets)
Loss ==
    /\ pc = "loss"
    /\ inner' = Append(inner, "loss")
    /\ pc' = "backward"
    /\ UNCHANGED <<prog, delta, adv, grad, weights, mode, lr, opt_steps, max_acc,
                   tmp_acc, file, log, trained, adjusted, evals, nsteps, nbatch,
                   ndelta, last_delta>>

\* loss.backward(): adv.grad is the gradient at the current weights
Backward ==
    /\ pc = "backward"
    /\ \E s \in [Comps -> Signs] : grad' = [set |-> TRUE, sign |-> s, at |-> weights]
    /\ inner' = Append(inner, "backward")
    /\ pc' = "optstep"
    /\ UNCHANGED <<prog, delta, adv, weights, mode, lr, opt_steps, max_acc,
                   tmp_acc, file, log, trained, adjusted, evals, nsteps, nbatch,
                   ndelta, last_delta>>

\* optimizer.step()
OptStep ==
    /\ pc = "optstep"
    /\ weights' = [weights EXCEPT !.steps = @ + 1]
    /\ opt_steps' = opt_steps + 1
    /\ inner' = Append(inner, "optstep")
    /\ pc' = "update"
    /\ UNCHANGED <<prog, delta, adv, grad, mode, lr, max_acc, tmp_acc, file,
                   log, trained, adjusted, evals, nsteps, nbatch, ndelta,
                   last_delta>>

\* grad = adv.grad.data; delta = delta.detach() + epsilon * torch.sign(grad)
Update ==
    /\ pc = "update"
    /\ delta' = ascent(delta, args.epsilon, grad.sign)
    /\ ndelta' = ndelta + 1
    /\ inner' = Append(inner, "update")
    /\ pc' = "clamp"
    /\ UNCHANGED <<prog, adv, grad, weights, mode, lr, opt_steps, max_acc,
                   tmp_acc, file, log, trained, adjusted, evals, nsteps, nbatch,
                   last_delta>>

\* mutant of Clamp: for i in range(m + 1), one inner step too many
ClampExtraStep ==
    /\ pc = "clamp"
    /\ delta' = clamp(delta, -args.epsilon, args.epsilon)
    /\ last_delta' = delta'
    /\ inner' = Append(inner, "clamp")
    /\ nsteps' = nsteps + 1
    /\ IF i + 1 < args.m + 1
       THEN /\ i' = i + 1
            /\ UNCHANGED <<batch_idx, nbatch>>
            /\ pc' = "forward"
       ELSE /\ i' = 0
            /\ nbatch' = nbatch + 1
            /\ IF batch_idx + 1 < args.nbatches
               THEN /\ batch_idx' = batch_idx + 1
                    /\ pc' = "forward"
               ELSE /\ batch_idx' = batch_idx
                    /\ pc' = "test"
    /\ UNCHANGED <<args, start_epoch, epoch, adv, grad, weights, mode, lr,
                   opt_steps, max_acc, tmp_acc, file, log, trained, adjusted,
                   evals, ndelta>>

\* delta = torch.clamp(delta, -epsilon, epsilon); the statistics; then the
\* heads of the loops over range(m) and over the minibatches
Clamp ==
    /\ pc = "clamp"
    /\ delta' = clamp(delta, -args.epsilon, args.epsilon)
    /\ last_delta' = delta'
    /\ inner' = Append(inner, "clamp")
    /\ nsteps' = nsteps + 1
    /\ IF i + 1 < args.m
       THEN /\ i' = i + 1
            /\ UNCHANGED <<batch_idx, nbatch>>
            /\ pc' = "forward"
       ELSE /\ i' = 0
            /\ nbatch' = nbatch + 1
            /\ IF batch_idx + 1 < args.nbatches
               THEN /\ batch_idx' = batch_idx + 1
                    /\ pc' = "forward"
               ELSE /\ batch_idx' = batch_idx
                    /\ pc' = "test"
    /\ UNCHANGED <<args, start_epoch, epoch, adv, grad, weights, mode, lr,
                   opt_steps, max_acc, tmp_acc, file, log, trained, adjusted,
                   evals, ndelta>>

\* mutant of test: the best accuracy is recorded inside test
testRecordsBest(acc) ==
    /\ acc \in args.testAccs
    /\ mode' = "eval"
    /\ max_acc' = IF max_acc < acc THEN acc ELSE max_acc
    /\ UNCHANGED <<delta, weights, lr, opt_steps, file>>

\* test(epoch): net.eval(), the attack and the forward passes under
\* torch.no_grad(); acc is the accuracy it returns
test(acc) ==
    /\ acc \in args.testAccs
    /\ mode' = "eval"
    /\ UNCHANGED <<delta, weights, lr, opt_steps, max_acc, file>>

\* test_50(epoch): as test, with adversary_50
test_50(acc) ==
    /\ acc \in args.testAccs
    /\ mode' = "eval"
    /\ UNCHANGED <<delta, weights, lr, opt_steps, max_acc, file>>

\* test_fgsm(epoch): as test, with adversary_FGSM
test_fgsm(acc) ==
    /\ acc \in args.testAccs
    /\ mode' = "eval"
    /\ UNCHANGED <<delta, weights, lr, opt_steps, max_acc, file>>

\* tmp_acc = test(epoch), at the end of train(epoch)
TrainTest ==
    /\ pc = "test"
    /\ \E a \in args.testAccs :
         /\ test(a)
         /\ tmp_acc' = a
         /\ log' = Append(log, [epoch |-> epoch, acc |-> a, net |-> weights])
    /\ pc' = "save"
    /\ UNCHANGED <<prog, adv, grad, trained, adjusted, evals, inner, nsteps,
                   nbatch, ndelta, last_delta>>

\* mutant of SaveBest: if max_acc <= tmp_acc
SaveBestOnTie ==
    /\ pc = "save"
    /\ IF max_acc <= tmp_acc
       THEN /\ max_acc' = tmp_acc
            /\ file' = [written |-> TRUE, net |-> weights, epoch |-> epoch]
       ELSE UNCHANGED <<max_acc, file>>
    /\ tmp_acc' = NoAcc
    /\ epoch' = epoch + 1
    /\ pc' = LoopHead(epoch + 1)
    /\ UNCHANGED <<args, start_epoch, batch_idx, i, delta, adv, grad, weights,
                   mode, lr, opt_steps, hist>>

\* if max_acc < tmp_acc: max_acc = tmp_acc; torch.save(state, best<dataset>);
\* train returns and the epoch loop goes on
SaveBest ==
    /\ pc = "save"
    /\ IF max_acc < tmp_acc
       THEN /\ max_acc' = tmp_acc
            /\ file' = [written |-> TRUE, net |-> weights, epoch |-> epoch]
       ELSE UNCHANGED <<max_acc, file>>
    /\ tmp_acc' = NoAcc
    /\ epoch' = epoch + 1
    /\ pc' = LoopHead(epoch + 1)
    /\ UNCHANGED <<args, start_epoch, batch_idx, i, delta, adv, grad, weights,
                   mode, lr, opt_steps, hist>>

\* checkpoint = torch.load(best<dataset>); net.load_state_dict; net.eval().
\* A file this run did not write is either missing (FileNotFoundError) or
\* left by an earlier run.
Load ==
    /\ pc = "load"
    /\ \/ /\ file.written
          /\ weights' = file.net
          /\ mode' = "eval"
          /\ pc' = "final_test"
       \/ /\ ~file.written
          /\ weights' = [base |-> "stale", steps |-> 0]
          /\ mode' = "eval"
          /\ pc' = "final_test"
       \/ /\ ~file.written
          /\ UNCHANGED <<weights, mode>>
          /\ pc' = "crashed"
    /\ UNCHANGED <<prog, delta, adv, grad, lr, opt_steps, max_acc, tmp_acc,
                   file, hist>>

\* mutant of FinalTest: test_fgsm(111) is called first
FinalTestFgsmFirst ==
    /\ pc = "final_test"
    /\ \E a \in args.testAccs : test_fgsm(a)
    /\ evals' = Append(evals, "test_fgsm")
    /\ pc' = "final_test_50"
    /\ UNCHANGED <<prog, adv, grad, tmp_acc, log, trained, adjusted, inner,
                   nsteps, nbatch, ndelta, last_delta>>

\* test(111)
FinalTest ==
    /\ pc = "final_test"
    /\ \E a \in args.testAccs : test(a)
    /\ evals' = Append(evals, "test")
    /\ pc' = "final_test_50"
    /\ UNCHANGED <<prog, adv, grad, tmp_acc, log, trained, adjusted, inner,
                   nsteps, nbatch, ndelta, last_delta>>

\* test_50(111)
FinalTest50 ==
    /\ pc = "final_test_50"
    /\ \E a \in args.testAccs : test_50(a)
    /\ evals' = Append(evals, "test_50")
    /\ pc' = "final_test_fgsm"
    /\ UNCHANGED <<prog, adv, grad, tmp_acc, log, trained, adjusted, inner,
                   nsteps, nbatch, ndelta, last_delta>>

\* test_fgsm(111)
FinalTestFgsm ==
    /\ pc = "final_test_fgsm"
    /\ \E a \in args.testAccs : test_fgsm(a)
    /\ evals' = Append(evals, "test_fgsm")
    /\ pc' = "done"
    /\ UNCHANGED <<prog, adv, grad, tmp_acc, log, trained, adjusted, inner,
                   nsteps, nbatch, ndelta, last_delta>>

Next ==
    \/ Resume
    \/ Adjust
    \/ TrainBegin
    \/ Forward
    \/ Loss
    \/ Backward
    \/ OptStep
    \/ Update
    \/ Clamp
    \/ TrainTest
    \/ SaveBest
    \/ Load
    \/ FinalTest
    \/ FinalTest50
    \/ FinalTestFgsm

Spec == Init /\ [][Next]_vars

TypeOK ==
    /\ pc \in {"resume", "adjust", "train", "forward", "loss", "backward",
               "optstep", "update", "clamp", "test", "save", "load",
               "final_test", "final_test_50", "final_test_fgsm", "done",
               "crashed"}
    /\ args \in Runs
    /\ mode \in {"train", "eval"}
    /\ max_acc \in Accs
    /\ delta \in [Comps -> Int]

\* ------------------------------------------------------- claim vocabulary
Order == <<"forward", "loss", "backward", "optstep", "update", "clamp">>
FinalOrder == <<"test", "test_50", "test_fgsm">>

IsPrefix(s, t) == Len(s) <= Len(t) /\ \A k \in 1..Len(s) : s[k] = t[k]

MaxOf(S) == CHOOSE x \in S : \A y \in S : y <= x

InnerPcs == {"forward", "loss", "backward", "optstep", "update", "clamp"}
FinalPcs == {"final_test", "final_test_50", "final_test_fgsm", "done"}
EvalPcs == {"test", "final_test", "final_test_50", "final_test_fgsm"}

\* between two minibatches, or outside the minibatch loop
AtBatchBoundary == pc \notin InnerPcs \/ (pc = "forward" /\ i = 0)

\* every component within epsilon of zero
InBall(v) == \A c \in Comps : -args.epsilon <= v[c] /\ v[c] <= args.epsilon

\* the epochs range(start_epoch, 27) yields
EpochsLeft == IF start_epoch < NumEpochs THEN NumEpochs - start_epoch ELSE 0

\* s lists start_epoch, start_epoch + 1, ... and stays below 27
IsEpochRun(s) ==
    /\ Len(s) <= EpochsLeft
    /\ \A k \in 1..Len(s) : s[k] = start_epoch + k - 1

\* ---------------------------------------------------------------- claims
\* C1: every inner step does forward, loss, backward, optimizer step, delta
\* update, clamp in this order; the delta update uses the gradient of the
\* weights as they were before the step's optimizer step; every minibatch
\* runs exactly m inner steps, so after B minibatches there were m*B
\* optimizer steps and m*B delta updates.
C1_InnerStepOrder ==
    /\ IsPrefix(inner, Order)
    /\ pc \in InnerPcs \ {"forward"} => inner = SubSeq(Order, 1, Len(inner))
    /\ pc = "update" =>
          /\ grad.set
          /\ grad.at.base = weights.base
          /\ grad.at.steps + 1 = weights.steps
    /\ AtBatchBoundary =>
          /\ nbatch > 0 => (inner = Order /\ nsteps = args.m)
          /\ opt_steps = args.m * nbatch
          /\ ndelta = args.m * nbatch
    /\ pc \in InnerPcs => nsteps <= args.m

C1_Witness ==
    /\ pc = "test"
    /\ args.m >= 2
    /\ nbatch >= 2
    /\ opt_steps = args.m * nbatch

\* a step that is neither the update nor the clamp leaves delta alone
DeltaStep == pc \notin {"update", "clamp"} => delta' = delta

\* C2: delta is zero at program start and is changed by nothing but the
\* update and the clamp of an inner step; the first inner step of a
\* minibatch reads what the last inner step before it wrote, also across an
\* epoch boundary, the evaluation and the learning-rate adjustment between.
C2_DeltaPersistent ==
    /\ [](pc = "resume" => delta = Zeros)
    /\ [](pc = "forward" => delta = last_delta)
    /\ [][DeltaStep]_vars

C2_Witness ==
    /\ pc = "forward"
    /\ Len(trained) >= 2
    /\ batch_idx = 0 /\ i = 0
    /\ delta # Zeros
    /\ delta = last_delta

\* max_acc does not decrease; the file changes exactly when tmp_acc > max_acc
BestStep ==
    /\ max_acc' >= max_acc
    /\ (file' # file) <=> (pc = "save" /\ tmp_acc > max_acc)
    /\ (file' # file) => max_acc' = tmp_acc

\* C3: after every epoch max_acc is the maximum of 0 and the PGD-20
\* accuracies seen; the checkpoint file is written iff the epoch's accuracy
\* is strictly greater than max_acc; max_acc never decreases; a file written
\* in this run holds the weights and the epoch of the earliest epoch that
\* attains the maximum.
C3_BestCheckpoint ==
    /\ [](pc # "save" =>
            /\ max_acc = MaxOf({0} \cup {log[k].acc : k \in 1..Len(log)})
            /\ file.written <=> \E k \in 1..Len(log) : log[k].acc > 0
            /\ file.written =>
                 \E k \in 1..Len(log) :
                    /\ log[k].acc = max_acc
                    /\ \A j \in 1..(k - 1) : log[j].acc < max_acc
                    /\ file.net = log[k].net
                    /\ file.epoch = log[k].epoch)
    /\ [][BestStep]_vars

C3_Witness ==
    /\ pc # "save"
    /\ Len(log) >= 2
    /\ log[1].acc > 0
    /\ log[2].acc = log[1].acc
    /\ file.written
    /\ file.epoch = log[1].epoch

\* a step of the final evaluations changes no training state and no file
FinalStep ==
    pc \in FinalPcs =>
        /\ pc' \in FinalPcs
        /\ UNCHANGED <<weights, opt_steps, delta, ndelta, nbatch, trained, log,
                       max_acc, file>>

C5_ClampInvariant ==
    /\ pc # "clamp" => InBall(delta)
    /\ InBall(adv)

C5_Witness ==
    /\ pc = "forward"
    /\ args.epsilon > 0
    /\ grad.set
    /\ \E c \in Comps : adv[c] = args.epsilon /\ grad.sign[c] = 1
    /\ \E c \in Comps : adv[c] = -args.epsilon /\ grad.sign[c] = -1
    /\ InBall(delta)

LrStep == lr' <= lr

\* C7: every epoch trains with lr 0.1 below epoch 12, 0.01 from 12 to 21 and
\* 0.001 from 22 on; some case assigns lr for every integer epoch; the lr
\* never increases in a run.
C7_LearningRate ==
    /\ [](pc \in InnerPcs \cup {"train", "test", "save"} =>
            /\ lr # Unbound
            /\ epoch \in 0..11 => lr = 100
            /\ epoch \in 12..21 => lr = 10
            /\ epoch >= 22 => lr = 1)
    /\ [](\A e \in (0 - 2 * NumEpochs)..(2 * NumEpochs) :
            adjust_learning_rate(e) \in {1, 10, 100})
    /\ [][LrStep]_vars

C7_Witness ==
    /\ pc = "forward"
    /\ ~args.resume
    /\ epoch = 22
    /\ lr = 1
    /\ Len(adjusted) = 23

\* a step of an evaluation function is read-only but for the mode
EvalStep ==
    pc \in EvalPcs =>
        /\ UNCHANGED <<weights, opt_steps, lr, delta, max_acc, file>>
        /\ mode' = "eval"

\* max_acc and the file change only after test() has returned to train
BestOnlyInTrain ==
    (max_acc' # max_acc \/ file' # file) => (pc = "save" /\ tmp_acc # NoAcc)

\* C8: test, test_50 and test_fgsm leave the weights, the optimizer, delta,
\* max_acc and the checkpoint file as they are and put the network in eval
\* mode; max_acc and the file change only in train after test has returned;
\* every inner step runs in train mode.
C8_EvalReadOnly ==
    /\ [][EvalStep]_vars
    /\ [][BestOnlyInTrain]_vars
    /\ [](pc \in InnerPcs => mode = "train")

C8_Witness ==
    /\ pc = "forward"
    /\ Len(log) >= 1
    /\ Len(trained) >= 2
    /\ mode = "train"
    /\ max_acc > 0

\* C9: when torch.load of the best checkpoint is reached, this run has
\* written the checkpoint file.
C9_CheckpointWritten == pc = "load" => file.written

\* C10, as stated: every component of delta is -epsilon, 0 or +epsilon in
\* every reachable state.
C10_ThreeValuesAlways ==
    \A c \in Comps : delta[c] \in {-args.epsilon, 0, args.epsilon}

\* C10, amended: every component of delta is -epsilon, 0 or +epsilon in
\* every state but the one between the update and the clamp of an inner
\* step; a completed inner step with sign s takes +epsilon to +epsilon
\* (s = 1), to 0 (s = -1), leaves it (s = 0); symmetrically for -epsilon;
\* and takes 0 to s * epsilon.
C10_ThreeValues ==
    /\ pc # "clamp" =>
          \A c \in Comps : delta[c] \in {-args.epsilon, 0, args.epsilon}
    /\ (pc \in {"forward", "test"} /\ inner = Order) =>
          \A c \in Comps :
             /\ adv[c] \in {-args.epsilon, 0, args.epsilon}
             /\ grad.sign[c] = 0 => delta[c] = adv[c]
             /\ (adv[c] = args.epsilon /\ grad.sign[c] = 1) => delta[c] = args.epsilon
             /\ (adv[c] = args.epsilon /\ grad.sign[c] = -1) => delta[c] = 0
             /\ (adv[c] = -args.epsilon /\ grad.sign[c] = -1) => delta[c] = -args.epsilon
             /\ (adv[c] = -args.epsilon /\ grad.sign[c] = 1) => delta[c] = 0
             /\ adv[c] = 0 => delta[c] = args.epsilon * grad.sign[c]

C10_Witness ==
    /\ pc = "forward"
    /\ inner = Order
    /\ args.epsilon > 1
    /\ \E c \in Comps :
          adv[c] = args.epsilon /\ grad.sign[c] = -1 /\ delta[c] = 0
    /\ \E c \in Comps :
          adv[c] = args.epsilon /\ grad.sign[c] = 1 /\ delta[c] = args.epsilon

====
